---- MODULE Spec2Model ----
(***************************************************************************)
(* Model of data_formulator's response-interpretation-and-execution        *)
(* pipeline: SQLDataTransformationAgent.process_gpt_sql_response and the   *)
(* extractors of agent_utils.py it calls.                                   *)
(*                                                                         *)
(* Text is modelled as a sequence of tokens.  A token stands for a run of  *)
(* characters the code treats as a unit: the fence marker of three         *)
(* backquotes (written FENCE), a language tag directly after a fence, a    *)
(* bracket, a JSON key or scalar, a SQL statement body, a newline, or a    *)
(* word of prose.  Positions are 1-based (Python's are 0-based); the       *)
(* not-found sentinel stays -1.                                            *)
(*                                                                         *)
(* One behaviour is one call of process_gpt_sql_response on the answer of  *)
(* the model client, against a connection that may already hold a view.    *)
(***************************************************************************)
EXTENDS Integers, Sequences, FiniteSets, TLC

VARIABLES pc, response, messages, idx, candidates, views, trace, raisedExc

\* A call of one of the text helpers of agent_utils on its own: callText is
\* the text argument, upc the position of the call, scanStart and scanObjects
\* the locals start_index and json_objects of extract_json_objects, scanned
\* the bracket spans its iterations looked at, found the answer of
\* find_matching_bracket, extracted the answer of
\* extract_code_from_gpt_response.
VARIABLES callText, upc, scanStart, scanObjects, scanned, found, extracted

\* A call of run or followup: which of the two (entry), the arguments
\* input_tables, prev_messages, dialog and n (nArg), the tables of the connection
\* (tables), the position of the loop over input_tables (tix), what each of
\* its iterations did (ensured), and the completion count that reaches the
\* model client (requested).
VARIABLES entry, input_tables, prev_messages, dialog, nArg, tables, tix, ensured,
          requested

\* The objects behind one call of process_gpt_sql_response: heap holds the
\* value of every object by its identity, messageRefs the identities the
\* list passed as messages holds, candRefs for every result the identities
\* its dialog list holds and those of its refined_goal and content, mutated
\* the result the caller last changed (0 for none).
VARIABLES heap, messageRefs, candRefs, mutated

\* One call of AthenaDataLoader._execute_query: qpc is its position, now the
\* seconds time.time() has advanced since start_time was taken, elapsed and
\* wait_time its locals, query_timeout the loader's setting, qstate the state
\* Athena holds for the query, observed the state the last poll read,
\* stop_calls how each stop_query_execution call went, outcome how the call
\* ended.
VARIABLES qpc, now, elapsed, wait_time, query_timeout, qstate, observed,
          stop_calls, outcome

\* get_live_sales: the module's _sales_lock (0 when free, else the request
\* that holds it), _sales_history and _sales_last_update, the clock of
\* datetime.utcnow() (utc), each request's position (spc), its locals now
\* (sales_now) and should_update (updating), and the request times of the
\* refills so far (refills).
VARIABLES sales_lock, sales_history, sales_last_update, utc, spc, sales_now,
          updating, refills

pvars == <<pc, response, messages, idx, candidates, views, trace, raisedExc>>

uvars == <<callText, upc, scanStart, scanObjects, scanned, found, extracted>>

rvars == <<entry, input_tables, prev_messages, dialog, nArg, tables, tix, ensured,
           requested>>

\* what neither process_gpt_sql_response nor a text helper touches
avars == <<heap, messageRefs, candRefs, mutated>>

qvars == <<qpc, now, elapsed, wait_time, query_timeout, qstate, observed,
           stop_calls, outcome>>

svars == <<sales_lock, sales_history, sales_last_update, utc, spc, sales_now,
           updating, refills>>

xvars == <<rvars, avars, qvars, svars>>

vars == <<pvars, uvars, xvars>>

(***************************************************************************)
(* Bounds of the model.                                                     *)
(***************************************************************************)
MaxChoices == 3

(***************************************************************************)
(* Program constants.                                                       *)
(***************************************************************************)
RowCap == 5000

Fence == "FENCE"

(***************************************************************************)
(* Generic helpers.                                                         *)
(***************************************************************************)
SeqsUpTo(S, n) == UNION {[1..k -> S] : k \in 0..n}

Min(S) == CHOOSE x \in S : \A y \in S : x <= y

RECURSIVE SortedSeq(_)
SortedSeq(S) == IF S = {} THEN <<>> ELSE <<Min(S)>> \o SortedSeq(S \ {Min(S)})

Last(s) == s[Len(s)]

\* the element of a one-element set
TheOne(S) == CHOOSE x \in S : TRUE

(***************************************************************************)
(* agent_utils.extract_code_from_gpt_response                               *)
(***************************************************************************)
\* positions where the regex fence+tag matches
prefix_pos(code_raw, language) ==
    {i \in 1..(Len(code_raw) - 1) : code_raw[i] = Fence /\ code_raw[i + 1] = language}

\* start positions of every fence in the text, in order
all_spans(code_raw) == SortedSeq({i \in 1..Len(code_raw) : code_raw[i] = Fence})

fence_matches_any_tag(code_raw, language) ==
    LET spans == all_spans(code_raw)
        js == SortedSeq({i \in 1..(Len(spans) - 1) :
                            /\ spans[i] + 1 <= Len(code_raw)
                            /\ code_raw[spans[i] + 1] \in {"sql", "json"}})
    IN [k \in 1..Len(js) |-> <<spans[js[k]], spans[js[k] + 1]>>]

\* [start of the opening fence, position of the closing fence] of every pair
\* of consecutive fences whose first carries the tag and whose second does not
fence_matches(code_raw, language) ==
    LET spans == all_spans(code_raw)
        pp == prefix_pos(code_raw, language)
        hit(i) == spans[i] \in pp /\ spans[i + 1] \notin pp
        js == SortedSeq({i \in 1..(Len(spans) - 1) : hit(i)})
    IN [k \in 1..Len(js) |-> <<spans[js[k]], spans[js[k] + 1]>>]

\* the slice between the fences, with fence+tag (two tokens) cut from the
\* front and fence (one token) cut from the back
strip_fences(code_raw, match) == SubSeq(code_raw, match[1] + 2, match[2] - 1)

extract_code_from_gpt_response(code_raw, language) ==
    LET matches == fence_matches(code_raw, language)
    IN [k \in 1..Len(matches) |-> strip_fences(code_raw, matches[k])]

(***************************************************************************)
(* agent_utils.find_matching_bracket                                        *)
(***************************************************************************)
open_bracket(bracket_type) == IF bracket_type = "curly" THEN "{" ELSE "["

close_bracket(bracket_type) == IF bracket_type = "curly" THEN "}" ELSE "]"

\* The token StrBrace is a JSON string literal whose text holds one closing
\* curly bracket, as in "}": to a scan over characters it is a closing
\* curly bracket, to json.loads it is a scalar.
StrBrace == "v}"

\* line 103: char == close_bracket
is_close(char, bracket_type) ==
    \/ char = close_bracket(bracket_type)
    \/ char = StrBrace /\ bracket_type = "curly"

RECURSIVE match_scan_any_kind(_, _, _, _)
match_scan_any_kind(text, index, bracket_type, depth) ==
    IF index > Len(text) THEN -1
    ELSE IF text[index] \in {"{", "["}
         THEN match_scan_any_kind(text, index + 1, bracket_type, depth + 1)
    ELSE IF text[index] \in {"}", "]", StrBrace}
         THEN IF depth = 0 THEN -1
              ELSE IF depth = 1 THEN index
              ELSE match_scan_any_kind(text, index + 1, bracket_type, depth - 1)
    ELSE match_scan_any_kind(text, index + 1, bracket_type, depth)

RECURSIVE match_scan(_, _, _, _)
match_scan(text, index, bracket_type, depth) ==
    IF index > Len(text) THEN -1
    ELSE IF text[index] = open_bracket(bracket_type)
         THEN match_scan(text, index + 1, bracket_type, depth + 1)
    ELSE IF is_close(text[index], bracket_type)
         THEN IF depth = 0 THEN -1
              ELSE IF depth = 1 THEN index
              ELSE match_scan(text, index + 1, bracket_type, depth - 1)
    ELSE match_scan(text, index + 1, bracket_type, depth)

find_matching_bracket(text, start_index, bracket_type) ==
    match_scan(text, start_index, bracket_type, 0)

(***************************************************************************)
(* json.loads on a token span.  Grammar over tokens, with key a member of  *)
(* JsonKeys and nl insignificant whitespace:                                *)
(*   value   ::=  v  |  object  |  array                                    *)
(*   object  ::=  { }  |  { members }     members ::= key value [, members] *)
(*   array   ::=  [ ]  |  [ elements ]    elements ::= value [, elements]   *)
(* The parsed value is represented by the span with its whitespace removed. *)
(***************************************************************************)
JsonKeys == {"k", "chart_encodings", "instruction", "reason"}

RECURSIVE strip_ws(_)
strip_ws(s) ==
    IF s = <<>> THEN <<>>
    ELSE IF Head(s) = "nl" THEN strip_ws(Tail(s))
    ELSE <<Head(s)>> \o strip_ws(Tail(s))

\* each parser returns the position after what it parsed, 0 on a syntax error
RECURSIVE parse_value(_, _), parse_members(_, _), parse_elements(_, _)
parse_value(s, i) ==
    IF i > Len(s) THEN 0
    ELSE IF s[i] \in {"v", StrBrace} THEN i + 1
    ELSE IF s[i] = "{"
         THEN IF i + 1 <= Len(s) /\ s[i + 1] = "}" THEN i + 2 ELSE parse_members(s, i + 1)
    ELSE IF s[i] = "["
         THEN IF i + 1 <= Len(s) /\ s[i + 1] = "]" THEN i + 2 ELSE parse_elements(s, i + 1)
    ELSE 0

parse_members(s, i) ==
    IF i > Len(s) \/ s[i] \notin JsonKeys THEN 0
    ELSE LET j == parse_value(s, i + 1)
         IN IF j = 0 \/ j > Len(s) THEN 0
            ELSE IF s[j] = "}" THEN j + 1
            ELSE IF s[j] = "," THEN parse_members(s, j + 1)
            ELSE 0

parse_elements(s, i) ==
    LET j == parse_value(s, i)
    IN IF j = 0 \/ j > Len(s) THEN 0
       ELSE IF s[j] = "]" THEN j + 1
       ELSE IF s[j] = "," THEN parse_elements(s, j + 1)
       ELSE 0

\* (s ranges over the one stripped span, so that it is computed once)
json_loads(json_str) ==
    TheOne({ IF parse_value(s, 1) = Len(s) + 1
             THEN [ok |-> TRUE, value |-> s]
             ELSE [ok |-> FALSE, value |-> <<>>] : s \in {strip_ws(json_str)} })

(***************************************************************************)
(* agent_utils.extract_json_objects                                         *)
(***************************************************************************)
\* str.find: first position >= start holding ch, -1 when there is none
find(text, ch, start) ==
    LET hits == {i \in start..Len(text) : text[i] = ch}
    IN IF hits = {} THEN -1 ELSE Min(hits)

next_start_restart(start, end_index) == start

next_start_after_open(start, end_index) == start + 1

\* line 147: the index the scan continues from after the span that starts at
\* start and ends at end_index, parsed or not
next_start(start, end_index) == end_index + 1

\* lines 141-145: the objects after the span json_str was handed to json.loads
collect(json_objects, json_str) ==
    LET parsed == json_loads(json_str)
    IN IF parsed.ok THEN Append(json_objects, parsed.value) ELSE json_objects

\* one iteration of the while loop (lines 117-147) from the cursor
\* start_index: brk tells that the loop was left, start and end_index are the
\* bracket positions of the iteration (-1 where there is none)
extract_step(text, start_index, json_objects) ==
    LET object_start == find(text, "{", start_index)
        array_start == find(text, "[", start_index)
    IN IF object_start = -1 /\ array_start = -1
       THEN [brk |-> TRUE, start |-> -1, end_index |-> -1,
             start_index |-> start_index, json_objects |-> json_objects]
       ELSE LET start == IF object_start = -1 THEN array_start
                         ELSE IF array_start = -1 THEN object_start
                         ELSE IF object_start < array_start THEN object_start
                         ELSE array_start
                bracket_type == IF start = array_start THEN "square" ELSE "curly"
                end_index == find_matching_bracket(text, start, bracket_type)
            IN IF end_index = -1
               THEN [brk |-> TRUE, start |-> start, end_index |-> -1,
                     start_index |-> start, json_objects |-> json_objects]
               ELSE [brk |-> FALSE, start |-> start, end_index |-> end_index,
                     start_index |-> next_start(start, end_index),
                     json_objects |-> collect(json_objects, SubSeq(text, start, end_index))]

RECURSIVE extract_scan(_, _, _)
extract_scan(text, start_index, json_objects) ==
    LET it == extract_step(text, start_index, json_objects)
    IN IF it.brk THEN it.json_objects
       ELSE extract_scan(text, it.start_index, it.json_objects)

extract_json_objects(text) == extract_scan(text, 1, <<>>)

(***************************************************************************)
(* The table store (the DuckDB connection self.conn) as the pipeline uses  *)
(* it.  The catalog maps the name of every existing view to the statement  *)
(* that defines it.  A statement is a token sequence; the store accepts    *)
(* the one-token statements below and evaluates each to a number of rows.  *)
(* Materialized rows are represented by their number.                      *)
(***************************************************************************)
ViewNames == {"view_aaaa", "view_aaab"}

IsValidSQL(query_str) == query_str \in {<<"qS">>, <<"qM">>, <<"qL">>}

QueryRows(query_str) ==
    CASE query_str = <<"qS">> -> 3
      [] query_str = <<"qM">> -> 5000
      [] query_str = <<"qL">> -> 6000

NoExc == [cls |-> "", text |-> ""]

\* what the store may do on one candidate's statements: work, or raise at
\* view creation, at row counting or at materialization
StoreFaults ==
    { [stage |-> "none", exc |-> NoExc],
      [stage |-> "create", exc |-> [cls |-> "IOException", text |-> "disk full"]],
      [stage |-> "count", exc |-> [cls |-> "IOException", text |-> "connection lost"]],
      [stage |-> "fetch", exc |-> [cls |-> "ConversionException", text |-> "bad cast"]] }

ParserException(query_str) ==
    [cls |-> "ParserException", text |-> "syntax error at end of input"]

create_view_alone(vws, table_name, query_str) ==
    [n \in {table_name} |-> IF n \in DOMAIN vws THEN vws[n] ELSE query_str]

\* CREATE VIEW IF NOT EXISTS <table_name> AS <query_str>
create_view(vws, table_name, query_str) ==
    IF table_name \in DOMAIN vws THEN vws
    ELSE [n \in DOMAIN vws \cup {table_name} |->
            IF n = table_name THEN query_str ELSE vws[n]]

\* SELECT * FROM <view> LIMIT n
select_limit(rows, n) == IF rows > n THEN n ELSE rows

(***************************************************************************)
(* SQLDataTransformationAgent.process_gpt_sql_response                      *)
(***************************************************************************)
str(x) == <<"str", x>>

DefaultGoal ==
    <<"{", "chart_encodings", "{", "}", ",", "instruction", "v", ",", "reason", "v", "}">>

NoCodeMessage ==
    <<"No code block found in the response. The model is unable to generate code to complete the task.">>

exception_result(resp) == [status |-> "other error", content |-> str(resp.body)]

error_message_verbatim(e) ==
    <<"An error occurred during code execution. Error type: ", e.cls, e.text>>

error_message(e) ==
    <<"An error occurred during code execution. Error type: ", e.cls>>

except_result_no_code(query_str, e) ==
    [status |-> "error", code |-> <<>>, content |-> error_message(e)]

except_result(query_str, e) ==
    [status |-> "error", code |-> query_str, content |-> error_message(e)]

no_code_result_other_error ==
    [status |-> "other error", code |-> <<>>, content |-> NoCodeMessage]

no_code_result_wrong_message ==
    [status |-> "error", code |-> <<>>, content |-> error_message(NoExc)]

no_code_result == [status |-> "error", code |-> <<>>, content |-> NoCodeMessage]

fetch_rows_uncapped(row_count) == row_count

\* the rows fetched for a view of row_count rows
fetch_rows(row_count) ==
    IF row_count > RowCap THEN select_limit(row_count, RowCap) ELSE row_count

ok_result(query_str, query_output, table_name, row_count) ==
    [status |-> "ok", code |-> query_str,
     content |-> [rows |-> query_output,
                  virtual |-> [table_name |-> table_name, row_count |-> row_count]]]

\* the try block of one choice: the catalog after it, the result, the
\* statements issued, the exception the store raised (NoExc when none) and
\* whether the generated name was already in the catalog
execute(vws, table_name, query_str, fault) ==
    LET create_exc == IF fault.stage = "create" THEN fault.exc
                      ELSE ParserException(query_str)
        vws1 == create_view(vws, table_name, query_str)
        row_count == QueryRows(vws1[table_name])
    IN IF fault.stage = "create" \/ ~IsValidSQL(query_str)
       THEN [views |-> vws, exc |-> create_exc, collided |-> table_name \in DOMAIN vws,
             submitted |-> query_str,
             ops |-> <<"CREATE VIEW">>,
             result |-> except_result(query_str, create_exc)]
       ELSE IF fault.stage = "count"
       THEN [views |-> vws1, exc |-> fault.exc, collided |-> table_name \in DOMAIN vws,
             submitted |-> query_str,
             ops |-> <<"CREATE VIEW", "COMMIT", "SELECT COUNT">>,
             result |-> except_result(query_str, fault.exc)]
       ELSE IF fault.stage = "fetch"
       THEN [views |-> vws1, exc |-> fault.exc, collided |-> table_name \in DOMAIN vws,
             submitted |-> query_str,
             ops |-> <<"CREATE VIEW", "COMMIT", "SELECT COUNT", "SELECT">>,
             result |-> except_result(query_str, fault.exc)]
       ELSE [views |-> vws1, exc |-> NoExc, collided |-> table_name \in DOMAIN vws,
             submitted |-> query_str,
             ops |-> <<"CREATE VIEW", "COMMIT", "SELECT COUNT", "SELECT">>,
             result |-> ok_result(query_str, fetch_rows(row_count), table_name, row_count)]

query_str_of_first(query_blocks) == query_blocks[1]

\* line 214: the block that is executed
query_str_of(query_blocks) == Last(query_blocks)

refined_goal_of_last(json_blocks) ==
    IF Len(json_blocks) > 0 THEN Last(json_blocks) ELSE DefaultGoal

\* lines 206-209
refined_goal_of(json_blocks) ==
    IF Len(json_blocks) > 0 THEN json_blocks[1] ELSE DefaultGoal

finish_result_reply_only(result, msgs, choice, refined_goal) ==
    [k \in DOMAIN result \cup {"dialog", "agent", "refined_goal"} |->
        CASE k = "dialog" -> <<[role |-> choice.role, content |-> choice.content]>>
          [] k = "agent" -> "SQLDataTransformationAgent"
          [] k = "refined_goal" -> refined_goal
          [] OTHER -> result[k]]

\* lines 255-257: the keys added to every result of the loop
finish_result(result, msgs, choice, refined_goal) ==
    [k \in DOMAIN result \cup {"dialog", "agent", "refined_goal"} |->
        CASE k = "dialog" -> Append(msgs, [role |-> choice.role, content |-> choice.content])
          [] k = "agent" -> "SQLDataTransformationAgent"
          [] k = "refined_goal" -> refined_goal
          [] OTHER -> result[k]]

append_candidate_front(cands, result) == <<result>> \o cands

append_candidate(cands, result) == Append(cands, result)

after_choice_abort(result) == IF result.status = "error" THEN "returned" ELSE "loop"

\* where the loop stands after a choice has been handled
after_choice(result) == "loop"

(***************************************************************************)
(* Inputs: what the model client may hand back, and the prior dialog.       *)
(***************************************************************************)
TJsonOnly == <<"x", Fence, "json", "{", "k", "v", "}", Fence, "[", "v", "]">>

TJsonSql == <<Fence, "json", "{", "k", "v", "}", Fence, "x", Fence, "sql", "qM", Fence>>

TSqlSql == <<Fence, "sql", "qS", Fence, "x", Fence, "sql", "qL", Fence>>

TSqlBad == <<Fence, "sql", "bad", Fence>>

Texts == {TJsonOnly, TJsonSql, TSqlSql, TSqlBad}

\* a choice is an object with message.role and message.content (text, or
\* None), or an error-bearing object without them
ChoiceOptions ==
    {[shape |-> "text", role |-> "assistant", content |-> t] : t \in Texts}
    \cup {[shape |-> "none", role |-> "assistant", content |-> <<>>],
          [shape |-> "error", role |-> "", content |-> <<>>]}

\* an exception with or without a body attribute, or any other object that
\* has no list of choices
FailedResponses ==
    {[kind |-> "exception", has_body |-> b, body |-> "rate limit", choices |-> <<>>] :
        b \in BOOLEAN}
    \cup {[kind |-> "other", has_body |-> FALSE, body |-> "", choices |-> <<>>]}

\* an object with a list of choices
choices_response(cs) ==
    [kind |-> "choices", has_body |-> FALSE, body |-> "", choices |-> cs]

PriorDialogs ==
    { <<[role |-> "system", content |-> <<"prompt">>],
        [role |-> "user", content |-> <<"goal">>]>> }

NoResponse == [kind |-> "none", has_body |-> FALSE, body |-> "", choices |-> <<>>]

EmptyCatalog == [n \in {} |-> <<>>]

\* the connection handed to the agent holds no view yet, or one that an
\* earlier use of the connection left behind
InitialCatalogs == {EmptyCatalog, [n \in {"view_aaaa"} |-> <<"qS">>]}

NoFound == [start |-> -1, bracket_type |-> "", end_index |-> -1]

NoExtracted == [language |-> "", results |-> <<>>]

NoCount == 0

\* process_gpt_sql_response is handed a response by something other than
\* run or followup
RunOff ==
    /\ entry = "none"
    /\ input_tables = <<>>
    /\ prev_messages = <<>>
    /\ dialog = <<>>
    /\ nArg = 1
    /\ tables = EmptyCatalog
    /\ tix = 0
    /\ ensured = <<>>
    /\ requested = NoCount

\* no object identities are followed
AliasOff ==
    /\ heap = <<>>
    /\ messageRefs = <<>>
    /\ candRefs = <<>>
    /\ mutated = 0

\* _execute_query is not called
AthenaOff ==
    /\ qpc = "off"
    /\ now = 0
    /\ elapsed = 0
    /\ wait_time = 0
    /\ query_timeout = 300
    /\ qstate = "NONE"
    /\ observed = "NONE"
    /\ stop_calls = <<>>
    /\ outcome = ""

\* get_live_sales is not called
SalesOff ==
    /\ sales_lock = 0
    /\ sales_history = [lo |-> 1, hi |-> 0]
    /\ sales_last_update = -1
    /\ utc = 0
    /\ spc = <<>>
    /\ sales_now = <<>>
    /\ updating = <<>>
    /\ refills = <<>>

OthersOff == RunOff /\ AliasOff /\ AthenaOff /\ SalesOff

\* no helper is called on its own
HelpersOff ==
    /\ callText = <<>>
    /\ upc = "off"
    /\ scanStart = 1
    /\ scanObjects = <<>>
    /\ scanned = <<>>
    /\ found = NoFound
    /\ extracted = NoExtracted

Init ==
    /\ HelpersOff
    /\ OthersOff
    /\ pc = "idle"
    /\ response = NoResponse
    /\ messages = <<>>
    /\ idx = 0
    /\ candidates = <<>>
    /\ views \in InitialCatalogs
    /\ trace = <<>>
    /\ raisedExc = ""

\* run line 325, followup line 357: the model client is called with the
\* messages; it answers with a failure, or starts a list of choices
GetCompletion(m, r) ==
    /\ pc = "idle"
    /\ UNCHANGED <<uvars, xvars>>
    /\ pc' = "client"
    /\ messages' = m
    /\ response' = r
    /\ idx' = 0
    /\ candidates' = <<>>
    /\ trace' = <<>>
    /\ raisedExc' = ""
    /\ UNCHANGED views

\* the model client puts one more choice into its answer
ClientChoice(c) ==
    /\ pc = "client"
    /\ UNCHANGED <<uvars, xvars>>
    /\ response.kind = "choices"
    /\ Len(response.choices) < MaxChoices
    /\ response' = choices_response(Append(response.choices, c))
    /\ UNCHANGED <<pc, messages, idx, candidates, views, trace, raisedExc>>

\* lines 196-198: the response is an exception
ProcessException ==
    /\ pc = "client"
    /\ UNCHANGED <<uvars, xvars>>
    /\ response.kind = "exception"
    /\ IF response.has_body
       THEN /\ candidates' = <<exception_result(response)>>
            /\ pc' = "returned"
            /\ UNCHANGED raisedExc
       ELSE /\ pc' = "raised"
            /\ raisedExc' = "AttributeError"
            /\ UNCHANGED candidates
    /\ UNCHANGED <<response, messages, idx, views, trace>>

\* lines 200-201: the loop over response.choices starts
ProcessBegin ==
    /\ pc = "client"
    /\ UNCHANGED <<uvars, xvars>>
    /\ response.kind # "exception"
    /\ IF response.kind = "choices"
       THEN /\ pc' = "loop"
            /\ idx' = 1
            /\ UNCHANGED raisedExc
       ELSE /\ pc' = "raised"
            /\ raisedExc' = "AttributeError"
            /\ UNCHANGED idx
    /\ UNCHANGED <<response, messages, candidates, views, trace>>

\* lines 201-258: one iteration of the loop
ProcessChoice ==
    /\ pc = "loop"
    /\ UNCHANGED <<uvars, xvars>>
    /\ idx <= Len(response.choices)
    /\ LET choice == response.choices[idx]
       IN IF choice.shape # "text"
          THEN /\ pc' = "raised"
               /\ raisedExc' = IF choice.shape = "none" THEN "TypeError" ELSE "AttributeError"
               /\ UNCHANGED <<idx, candidates, views, trace>>
          ELSE LET text == Append(choice.content, "nl")
                   json_blocks == extract_json_objects(text)
                   refined_goal == refined_goal_of(json_blocks)
                   query_blocks == extract_code_from_gpt_response(text, "sql")
                   extract_ops == <<"extract_json_objects", "extract_code_from_gpt_response">>
               IN IF Len(query_blocks) > 0
                  THEN \E table_name \in ViewNames, fault \in StoreFaults :
                         LET r == execute(views, table_name, query_str_of(query_blocks), fault)
                             result == finish_result(r.result, messages, choice, refined_goal)
                         IN /\ views' = r.views
                            /\ candidates' = append_candidate(candidates, result)
                            /\ trace' = Append(trace, [ops |-> extract_ops \o r.ops, exc |-> r.exc,
                                                     collided |-> r.collided,
                                                     submitted |-> <<r.submitted>>])
                            /\ pc' = after_choice(result)
                            /\ idx' = idx + 1
                            /\ UNCHANGED raisedExc
                  ELSE LET result == finish_result(no_code_result, messages, choice, refined_goal)
                       IN /\ candidates' = append_candidate(candidates, result)
                          /\ trace' = Append(trace, [ops |-> extract_ops, exc |-> NoExc,
                                                   collided |-> FALSE,
                                                   submitted |-> <<>>])
                          /\ pc' = after_choice(result)
                          /\ idx' = idx + 1
                          /\ UNCHANGED <<views, raisedExc>>
    /\ UNCHANGED <<response, messages>>

\* line 268: every choice has been handled
ProcessReturn ==
    /\ pc = "loop"
    /\ UNCHANGED <<uvars, xvars>>
    /\ idx > Len(response.choices)
    /\ pc' = "returned"
    /\ UNCHANGED <<response, messages, idx, candidates, views, trace, raisedExc>>

Next ==
    \/ \E m \in PriorDialogs, r \in FailedResponses \cup {choices_response(<<>>)} :
          GetCompletion(m, r)
    \/ \E c \in ChoiceOptions : ClientChoice(c)
    \/ ProcessException
    \/ ProcessBegin
    \/ ProcessChoice
    \/ ProcessReturn

Spec == Init /\ [][Next]_vars

(***************************************************************************)
(* Properties of process_gpt_sql_response.                                  *)
(***************************************************************************)
InBatch == response.kind = "choices" /\ pc \in {"loop", "returned", "raised"}

Finished == pc \in {"returned", "raised"}

\* the text holds a fence tagged sql whose next fence is not tagged sql
HasSqlBlock(text) ==
    \E i, j \in 1..Len(text) :
        /\ i < j
        /\ text[i] = Fence /\ i + 1 <= Len(text) /\ text[i + 1] = "sql"
        /\ text[j] = Fence
        /\ \A m \in (i + 1)..(j - 1) : text[m] # Fence
        /\ ~(j + 1 <= Len(text) /\ text[j + 1] = "sql")

\* the sql blocks of every text a choice may carry, as the pipeline sees it
\* (with the newline it appends)
SqlBlocksOf ==
    [t \in Texts |-> extract_code_from_gpt_response(Append(t, "nl"), "sql")]

sql_blocks(i) == SqlBlocksOf[response.choices[i].content]

HasSqlBlockIn == [t \in Texts |-> HasSqlBlock(t)]

StoreOps == {"CREATE VIEW", "COMMIT", "SELECT COUNT", "SELECT"}

\* C1: no exception propagates out of process_gpt_sql_response, whatever the
\* model-client result and the store do: a call never ends by raising.
C1_NoExceptionPropagates == pc # "raised"

\* C2: when process_gpt_sql_response returns for a response with k choices,
\* it returns exactly k candidates and the i-th candidate is built from the
\* i-th choice: its dialog ends with that choice's message and its code is
\* the last sql block of that choice's text (empty when there is none).
C2_OneCandidatePerChoiceInOrder ==
    (pc = "returned" /\ response.kind = "choices") =>
        /\ Len(candidates) = Len(response.choices)
        /\ \A i \in 1..Len(candidates) :
              /\ Last(candidates[i].dialog).content = response.choices[i].content
              /\ Last(candidates[i].dialog).role = response.choices[i].role
              /\ candidates[i].code =
                    IF sql_blocks(i) = <<>> THEN <<>> ELSE Last(sql_blocks(i))

C2_Witness ==
    /\ pc = "returned" /\ response.kind = "choices"
    /\ Len(candidates) = 3
    /\ response.choices[1].content = TSqlBad
    /\ response.choices[2].content = TJsonOnly
    /\ response.choices[3].content = TSqlSql
    /\ candidates[3].status = "ok"

C4_FailedCallGivesOtherError ==
    (response.kind \in {"exception", "other"} /\ Finished)
    => /\ pc = "returned"
       /\ Len(candidates) = 1
       /\ candidates[1].status = "other error"
       /\ candidates[1].content = str(response.body)
       /\ trace = <<>>

\* C5: failures are contained per candidate: a choice with text content,
\* whether it yields no code, a store error or a result, adds exactly one
\* candidate and leaves the loop running; the batch ends early only on a
\* choice without text content, and a return always follows the last choice.
C5_FailureDoesNotAbortBatch ==
    InBatch =>
        /\ Len(candidates) = idx - 1
        /\ Len(trace) = idx - 1
        /\ pc = "returned" => idx = Len(response.choices) + 1
        /\ pc = "raised" => /\ idx <= Len(response.choices)
                            /\ response.choices[idx].shape # "text"
        /\ \A i \in 1..Len(candidates) :
              (candidates[i].status = "error") <=>
                 (sql_blocks(i) = <<>> \/ trace[i].exc # NoExc)

C5_Witness ==
    /\ pc = "returned" /\ response.kind = "choices"
    /\ Len(candidates) = 3
    /\ candidates[1].status = "error" /\ candidates[1].code = <<>>
    /\ candidates[2].status = "error" /\ trace[2].exc # NoExc
    /\ candidates[3].status = "ok"

\* C6: a choice whose text holds no sql-tagged fenced block (a JSON block or
\* not) gets status 'error', the empty string as code and the message that
\* no code block was found, and no statement is issued to the store for it.
C6_NoSqlBlockGivesNoCodeError ==
    InBatch =>
        \A i \in 1..Len(candidates) :
            ~HasSqlBlockIn[response.choices[i].content] =>
                /\ candidates[i].status = "error"
                /\ candidates[i].code = <<>>
                /\ candidates[i].content = NoCodeMessage
                /\ \A k \in 1..Len(trace[i].ops) : trace[i].ops[k] \notin StoreOps
                /\ ~trace[i].collided

C6_Witness ==
    /\ pc = "returned" /\ response.kind = "choices"
    /\ Len(candidates) >= 1
    /\ response.choices[1].content = TJsonOnly
    /\ candidates[1].status = "error"
    /\ candidates[1].content = NoCodeMessage
    /\ candidates[1].refined_goal = <<"{", "k", "v", "}">>
    /\ views \in InitialCatalogs

\* C7: if the generated view name already exists in the store, the candidate
\* fails with a store-reported error: its status is 'error' and the store
\* raised.
C7_NameCollisionFails ==
    InBatch =>
        \A i \in 1..Len(candidates) :
            trace[i].collided =>
                candidates[i].status = "error" /\ trace[i].exc # NoExc

\* C8: a statement the store rejects as invalid, or on which the store raises
\* at view creation, row counting or materialization, yields a candidate with
\* status 'error' and the attempted statement as code; the exception of the
\* store is never the one a call ends with.
C8_StoreErrorGivesErrorCandidate ==
    /\ InBatch =>
          \A i \in 1..Len(trace) :
              (sql_blocks(i) # <<>>
                 /\ (~IsValidSQL(Last(sql_blocks(i))) \/ trace[i].exc # NoExc))
              => /\ i <= Len(candidates)
                 /\ candidates[i].status = "error"
                 /\ candidates[i].code = Last(sql_blocks(i))
    /\ pc = "raised" => raisedExc \in {"AttributeError", "TypeError"}

C8_Witness ==
    /\ pc = "returned" /\ response.kind = "choices"
    /\ Len(candidates) = 3
    /\ \A i \in 1..3 : candidates[i].status = "error"
    /\ candidates[1].code = <<"bad">> /\ trace[1].exc.cls = "ParserException"
    /\ candidates[2].code = <<"qM">> /\ "SELECT COUNT" = Last(trace[2].ops)
    /\ candidates[3].code = <<"qL">> /\ "SELECT" = Last(trace[3].ops)

\* C9: the content of an execution-error candidate is fixed by the class name
\* of the exception the store raised: it names that class, holds the raw
\* error text nowhere, and two candidates whose store errors have the same
\* class have the same status and content even when the error texts differ.
C9_ErrorContentOnlyNamesClass ==
    InBatch =>
        \A i \in 1..Len(candidates) :
            trace[i].exc # NoExc =>
                /\ candidates[i].content =
                      <<"An error occurred during code execution. Error type: ",
                        trace[i].exc.cls>>
                /\ \A k \in 1..Len(candidates[i].content) :
                      candidates[i].content[k] # trace[i].exc.text
                /\ \A j \in 1..Len(candidates) :
                      (trace[j].exc # NoExc /\ trace[j].exc.cls = trace[i].exc.cls)
                      => /\ candidates[j].status = candidates[i].status
                         /\ candidates[j].content = candidates[i].content

C9_Witness ==
    /\ pc = "returned" /\ response.kind = "choices"
    /\ \E i, j \in 1..Len(candidates) :
          /\ trace[i].exc # NoExc /\ trace[j].exc # NoExc
          /\ trace[i].exc.cls = trace[j].exc.cls
          /\ trace[i].exc.text # trace[j].exc.text
          /\ candidates[i].content = candidates[j].content

\* C10: a status-'ok' candidate reports as row_count the number r of rows of
\* the view it names, and as rows min(r, 5000) rows: all of them when
\* r <= 5000, and 5000 when r = 6000.
C10_RowCountAndCap ==
    InBatch =>
        \A i \in 1..Len(candidates) :
            candidates[i].status = "ok" =>
                LET name == candidates[i].content.virtual.table_name
                    r == QueryRows(views[name])
                IN /\ name \in DOMAIN views
                   /\ candidates[i].content.virtual.row_count = r
                   /\ candidates[i].content.rows = IF r <= 5000 THEN r ELSE 5000
                   /\ r = 6000 => candidates[i].content.rows = 5000

C10_Witness ==
    /\ pc = "returned" /\ response.kind = "choices"
    /\ Len(candidates) = 2
    /\ candidates[1].status = "ok"
    /\ candidates[1].content.virtual.row_count = 6000
    /\ candidates[1].content.rows = 5000
    /\ candidates[2].status = "ok"
    /\ candidates[2].content.virtual.row_count = 5000
    /\ candidates[2].content.rows = 5000

\* C11: when a choice holds two or more sql blocks, the candidate's code is
\* the last of them in text order, the only statement text submitted to the
\* store for the choice is that last block, in one view creation, and a view
\* the choice created is defined by that last block.
C11_LastSqlBlockIsAuthoritative ==
    InBatch =>
        \A i \in 1..Len(candidates) :
            Len(sql_blocks(i)) >= 2 =>
                /\ candidates[i].code = sql_blocks(i)[Len(sql_blocks(i))]
                /\ trace[i].submitted = <<sql_blocks(i)[Len(sql_blocks(i))]>>
                /\ Cardinality({k \in 1..Len(trace[i].ops) :
                                   trace[i].ops[k] = "CREATE VIEW"}) = 1
                /\ (candidates[i].status = "ok" /\ ~trace[i].collided)
                      => views[candidates[i].content.virtual.table_name]
                            = sql_blocks(i)[Len(sql_blocks(i))]

C11_Witness ==
    /\ pc = "returned" /\ response.kind = "choices"
    /\ Len(candidates) >= 1
    /\ response.choices[1].content = TSqlSql
    /\ candidates[1].status = "ok"
    /\ candidates[1].code = <<"qL">>
    /\ trace[1].submitted = <<<<"qL">>>>
    /\ ~trace[1].collided
    /\ views[candidates[1].content.virtual.table_name] = <<"qL">>

\* C12: result views are never dropped: a step of the pipeline keeps every
\* view of the store, and every view named in a status-'ok' candidate exists
\* in the store.
C12_ViewsAreNeverDropped ==
    /\ [][DOMAIN views \subseteq DOMAIN views']_vars
    /\ [](\A i \in 1..Len(candidates) :
             candidates[i].status = "ok"
                => candidates[i].content.virtual.table_name \in DOMAIN views)

C12_Witness ==
    /\ pc = "returned" /\ response.kind = "choices"
    /\ Len(candidates) = 3
    /\ candidates[1].status = "ok" /\ candidates[2].status = "ok"
    /\ candidates[1].content.virtual.table_name # candidates[2].content.virtual.table_name
    /\ candidates[3].status = "error" /\ trace[3].exc # NoExc
    /\ DOMAIN views = ViewNames

MaxJsonLen == 5

JsonAlphabet == {"{", "}", "[", "]", "k", "v", StrBrace}

JsonTexts == SeqsUpTo(JsonAlphabet, MaxJsonLen)

PipelineOff ==
    /\ pc = "off"
    /\ response = NoResponse
    /\ messages = <<>>
    /\ idx = 0
    /\ candidates = <<>>
    /\ views = EmptyCatalog
    /\ trace = <<>>
    /\ raisedExc = ""

InitJson ==
    /\ PipelineOff
    /\ OthersOff
    /\ callText \in JsonTexts
    /\ upc = "start"
    /\ scanStart = 1
    /\ scanObjects = <<>>
    /\ scanned = <<>>
    /\ found = NoFound
    /\ extracted = NoExtracted

\* lines 115-116: json_objects = [], start_index = 0 (the first position)
ExtractJsonObjects ==
    /\ upc = "start"
    /\ upc' = "scan"
    /\ scanStart' = 1
    /\ scanObjects' = <<>>
    /\ UNCHANGED <<xvars, pvars, callText, scanned, found, extracted>>

\* lines 117-147: one iteration of the while loop; a break leaves the loop
\* for the return of line 149
ExtractIteration ==
    /\ upc = "scan"
    /\ \E it \in {extract_step(callText, scanStart, scanObjects)} :
          /\ scanStart' = it.start_index
          /\ scanObjects' = it.json_objects
          /\ scanned' = IF it.start = -1 THEN scanned
                        ELSE Append(scanned,
                                    [start |-> it.start, end_index |-> it.end_index,
                                     parsed |-> Len(it.json_objects) > Len(scanObjects)])
          /\ upc' = IF it.brk THEN "done" ELSE "scan"
    /\ UNCHANGED <<xvars, pvars, callText, found, extracted>>

\* lines 89-109, called as line 136 calls it: start_index holds the opening
\* bracket of bracket_type
FindMatchingBracket(start, bracket_type) ==
    /\ upc = "start"
    /\ start \in 1..Len(callText)
    /\ callText[start] = open_bracket(bracket_type)
    /\ found' = [start |-> start, bracket_type |-> bracket_type,
                 end_index |-> find_matching_bracket(callText, start, bracket_type)]
    /\ upc' = "found"
    /\ UNCHANGED <<xvars, pvars, callText, scanStart, scanObjects, scanned, extracted>>

NextJson ==
    \/ ExtractJsonObjects
    \/ ExtractIteration
    \/ \E start \in 1..MaxJsonLen, bracket_type \in {"curly", "square"} :
          FindMatchingBracket(start, bracket_type)

SpecJson == InitJson /\ [][NextJson]_vars

\* The scan on its own, on the texts of at most MaxScanLen tokens.
MaxScanLen == 4

InitScan ==
    /\ PipelineOff
    /\ OthersOff
    /\ callText \in SeqsUpTo(JsonAlphabet, MaxScanLen)
    /\ upc = "start"
    /\ scanStart = 1
    /\ scanObjects = <<>>
    /\ scanned = <<>>
    /\ found = NoFound
    /\ extracted = NoExtracted

NextScan ==
    \/ ExtractJsonObjects
    \/ ExtractIteration

\* the body of extract_json_objects is sequential code: a statement that can
\* run does run
SpecScanFair ==
    InitScan /\ [][NextScan]_vars
        /\ WF_vars(ExtractJsonObjects) /\ WF_vars(ExtractIteration)

(***************************************************************************)
(* Properties of extract_json_objects and find_matching_bracket.           *)
(***************************************************************************)
\* the spans of callText that are a well-formed JSON object or array
WellFormedSpans ==
    {ij \in (1..Len(callText)) \X (1..Len(callText)) :
        /\ ij[1] < ij[2]
        /\ callText[ij[1]] \in {"{", "["}
        /\ json_loads(SubSeq(callText, ij[1], ij[2])).ok}

ValueOfSpan(ij) == json_loads(SubSeq(callText, ij[1], ij[2])).value

Returned == {scanObjects[k] : k \in 1..Len(scanObjects)}

\* the iterations whose span parsed, in the order they ran
ParsedSpans == SelectSeq(scanned, LAMBDA sp : sp.parsed)

\* the token is free of bracket characters
NoBracket(ch) == ch \notin {"{", "}", "[", "]", StrBrace}

\* C14, taken for prose that holds no bracket at all: a well-formed JSON
\* object or array with such prose before and after it is returned, alone,
\* as the value its text parses to.
C14_EmbeddedJsonIsReturned ==
    upc = "done" =>
        \A ij \in WellFormedSpans :
            (/\ \A i \in 1..(ij[1] - 1) : NoBracket(callText[i])
             /\ \A i \in (ij[2] + 1)..Len(callText) : NoBracket(callText[i]))
                => scanObjects = <<ValueOfSpan(ij)>>

\* C15 as stated: after a span that does not parse the scan resumes one
\* position after the span's opening bracket, and every well-formed value
\* inside the failed span is returned.
C15_FailedSpanIsRescanned ==
    upc = "done" =>
        \A k \in 1..Len(scanned) :
            (scanned[k].end_index # -1 /\ ~scanned[k].parsed) =>
                \A ij \in WellFormedSpans :
                    (scanned[k].start < ij[1] /\ ij[2] < scanned[k].end_index)
                        => ValueOfSpan(ij) \in Returned

\* C16: the scan ends on every text; every iteration that stays in the loop
\* moves the cursor forward; and when the scan ends at an opening bracket
\* with no matching close, it returns the values of the spans parsed before
\* that bracket, which is what the text before that bracket alone yields.
C16_ScanTerminatesAtUnbalancedBracket ==
    /\ [](upc = "scan" => <>(upc = "done"))
    /\ [][(upc = "scan" /\ upc' = "scan") => scanStart' > scanStart]_vars
    /\ []((upc = "done" /\ scanned # <<>> /\ Last(scanned).end_index = -1) =>
            /\ \A k \in 1..(Len(scanned) - 1) :
                  scanned[k].end_index < Last(scanned).start
            /\ scanObjects = [k \in 1..Len(ParsedSpans) |->
                                ValueOfSpan(<<ParsedSpans[k].start, ParsedSpans[k].end_index>>)]
            /\ scanObjects =
                  extract_json_objects(SubSeq(callText, 1, Last(scanned).start - 1)))

C16_Witness ==
    /\ upc = "done"
    /\ callText = <<"[", "]", "{", "k">>
    /\ Last(scanned).start = 3 /\ Last(scanned).end_index = -1
    /\ scanObjects = << <<"[", "]">> >>

\* C17: the returned values are the spans that parsed, in increasing order
\* of opening bracket, and each returned span ends before the next begins.
C17_ReturnedSpansOrderedAndDisjoint ==
    /\ Len(scanObjects) = Len(ParsedSpans)
    /\ \A k \in 1..Len(ParsedSpans) :
          /\ scanObjects[k] = ValueOfSpan(<<ParsedSpans[k].start, ParsedSpans[k].end_index>>)
          /\ ParsedSpans[k].start < ParsedSpans[k].end_index
          /\ k > 1 => ParsedSpans[k - 1].end_index < ParsedSpans[k].start

C17_Witness ==
    /\ upc = "done"
    /\ callText = <<"[", "v", "]", "{", "}">>
    /\ Len(scanObjects) = 2
    /\ ParsedSpans[1].start = 1 /\ ParsedSpans[2].start = 4

\* the number of opening, and of closing, bracket characters of the kind
\* among the positions a to b of s, the one inside a string literal included
Opens(s, bracket_type, a, b) ==
    Cardinality({i \in a..b : s[i] = open_bracket(bracket_type)})

Closes(s, bracket_type, a, b) ==
    Cardinality({i \in a..b :
        \/ s[i] = close_bracket(bracket_type)
        \/ s[i] = StrBrace /\ bracket_type = "curly"})

\* s with every character that is not a bracket of the kind replaced: a
\* bracket of the other kind by a scalar, the string literal holding a
\* bracket by the bare bracket when it is of the kind
OnlyKind(s, bracket_type) ==
    [i \in 1..Len(s) |->
        IF s[i] \in {open_bracket(bracket_type), close_bracket(bracket_type)} THEN s[i]
        ELSE IF s[i] = StrBrace /\ bracket_type = "curly" THEN "}"
        ELSE "v"]

\* C18: called at an opening bracket, find_matching_bracket returns the
\* smallest later index up to which the brackets of its kind opened and
\* closed are equal in number, -1 when there is none; replacing every other
\* character, brackets of the other kind and quotes included, does not
\* change the answer.
C18_MatchingBracketIsFirstBalance ==
    upc = "found" =>
        LET balanced == {j \in (found.start + 1)..Len(callText) :
                            Opens(callText, found.bracket_type, found.start, j)
                               = Closes(callText, found.bracket_type, found.start, j)}
        IN /\ found.end_index = IF balanced = {} THEN -1 ELSE Min(balanced)
           /\ found.end_index =
                 find_matching_bracket(OnlyKind(callText, found.bracket_type),
                                       found.start, found.bracket_type)

C18_Witness ==
    /\ upc = "found"
    /\ callText = <<"{", "[", "{", "}", "}">>
    /\ found.start = 1 /\ found.bracket_type = "curly"
    /\ found.end_index = 5

C18_WitnessQuoted ==
    /\ upc = "found"
    /\ callText = <<"{", "k", "v}", "}">>
    /\ found.start = 1 /\ found.bracket_type = "curly"
    /\ found.end_index = 3

(***************************************************************************)
(* extract_code_from_gpt_response called on its own: on every text of at   *)
(* most MaxFenceLen tokens over FenceAlphabet, and on the responses made of *)
(* a json block and a sql block in either order, with bodies of at most     *)
(* MaxBodyLen tokens and prose before, between and after them.              *)
(***************************************************************************)
MaxFenceLen == 6

MaxBodyLen == 2

Languages == {"sql", "json"}

FenceAlphabet == {Fence, "sql", "json", "q", "v"}

Bodies == SeqsUpTo({"q", "v"}, MaxBodyLen)

Proses == {<<>>, <<"v">>, <<"sql">>}

Block(tag, body) == <<Fence, tag>> \o body \o <<Fence>>

TwoBlockTexts ==
    {p0 \o Block(tags[1], b1) \o p1 \o Block(tags[2], b2) \o p2 :
        p0 \in Proses, p1 \in Proses, p2 \in Proses, b1 \in Bodies, b2 \in Bodies,
        tags \in {<<"json", "sql">>, <<"sql", "json">>}}

FenceTexts == SeqsUpTo(FenceAlphabet, MaxFenceLen) \cup TwoBlockTexts

InitFence ==
    /\ PipelineOff
    /\ OthersOff
    /\ callText \in FenceTexts
    /\ upc = "start"
    /\ scanStart = 1
    /\ scanObjects = <<>>
    /\ scanned = <<>>
    /\ found = NoFound
    /\ extracted = NoExtracted

\* lines 66-86
ExtractCodeFromGptResponse(language) ==
    /\ upc = "start"
    /\ extracted' = [language |-> language,
                     results |-> extract_code_from_gpt_response(callText, language)]
    /\ upc' = "extracted"
    /\ UNCHANGED <<xvars, pvars, callText, scanStart, scanObjects, scanned, found>>

NextFence == \E language \in Languages : ExtractCodeFromGptResponse(language)

SpecFence == InitFence /\ [][NextFence]_vars

(***************************************************************************)
(* Properties of extract_code_from_gpt_response.                           *)
(***************************************************************************)
FencesOf(s) == {i \in 1..Len(s) : s[i] = Fence}

\* the fence at f is followed by a language tag
Tagged(s, f) == f + 1 <= Len(s) /\ s[f + 1] \in Languages

TaggedWith(s, f, language) == f + 1 <= Len(s) /\ s[f + 1] = language

\* the fences after f that carry no language tag
UntaggedAfter(s, f) == {g \in FencesOf(s) : g > f /\ ~Tagged(s, g)}

\* the blocks the pairing of C19 yields: every fence tagged with the
\* language, closed by the nearest later fence that carries no tag at all
NearestUntaggedBlocks(s, language) ==
    LET opens == SortedSeq({f \in FencesOf(s) :
                               TaggedWith(s, f, language) /\ UntaggedAfter(s, f) # {}})
    IN [k \in 1..Len(opens) |->
           SubSeq(s, opens[k] + 2, Min(UntaggedAfter(s, opens[k])) - 1)]

\* C19 as stated: the blocks returned are those of the fences tagged with
\* the requested language, each closed by the nearest following fence that
\* is not a tagged-open fence of any language, in order of occurrence.
C19_ClosedByNearestUntaggedFence ==
    upc = "extracted" =>
        extracted.results = NearestUntaggedBlocks(callText, extracted.language)

\* the text is a json-tagged block and a sql-tagged block, in either order:
\* four fences, the first and third tagged, one json and one sql, the second
\* and fourth untagged
IsTwoBlockText(s) ==
    /\ Cardinality(FencesOf(s)) = 4
    /\ LET f == SortedSeq(FencesOf(s))
       IN /\ Tagged(s, f[1]) /\ ~Tagged(s, f[2])
          /\ Tagged(s, f[3]) /\ ~Tagged(s, f[4])
          /\ {s[f[1] + 1], s[f[3] + 1]} = Languages

\* C20: for language sql on such a text exactly one block is returned, the
\* tokens between the sql tag and the fence that closes the sql block, none
\* of them a token of the json block.
C20_OnlySqlBlockReturned ==
    (upc = "extracted" /\ extracted.language = "sql" /\ IsTwoBlockText(callText)) =>
        LET f == SortedSeq(FencesOf(callText))
            o == IF callText[f[1] + 1] = "sql" THEN 1 ELSE 3
            j == IF o = 1 THEN 3 ELSE 1
        IN /\ extracted.results = <<SubSeq(callText, f[o] + 2, f[o + 1] - 1)>>
           /\ (f[o] + 2)..(f[o + 1] - 1) \cap f[j]..f[j + 1] = {}

C20_Witness ==
    /\ upc = "extracted" /\ extracted.language = "sql"
    /\ callText = <<"v", Fence, "json", "v", "v", Fence, Fence, "sql", "q", Fence, "v">>
    /\ extracted.results = << <<"q">> >>

C20_WitnessSqlFirst ==
    /\ upc = "extracted" /\ extracted.language = "sql"
    /\ callText = <<Fence, "sql", "q", "q", Fence, "v", Fence, "json", "v", Fence>>
    /\ extracted.results = << <<"q", "q">> >>

(***************************************************************************)
(* Further properties of process_gpt_sql_response.                         *)
(***************************************************************************)
\* what extract_json_objects returns for each text a choice can hold
JsonBlocksOf == [t \in Texts |-> extract_json_objects(Append(t, "nl"))]

\* C21: a candidate built from a choice, ok or error, has as refined_goal
\* the first value extract_json_objects returns for the choice's text, and
\* the default descriptor when it returns none.
C21_RefinedGoalIsFirstJsonOrDefault ==
    InBatch =>
        \A i \in 1..Len(candidates) :
            LET blocks == JsonBlocksOf[response.choices[i].content]
            IN /\ candidates[i].status \in {"ok", "error"}
               /\ candidates[i].refined_goal =
                     IF blocks = <<>>
                     THEN <<"{", "chart_encodings", "{", "}", ",", "instruction", "v",
                            ",", "reason", "v", "}">>
                     ELSE blocks[1]

C21_Witness ==
    /\ pc = "returned" /\ response.kind = "choices"
    /\ Len(candidates) = 3
    /\ response.choices[1].content = TJsonOnly
    /\ Len(JsonBlocksOf[TJsonOnly]) = 2
    /\ candidates[1].status = "error"
    /\ candidates[1].refined_goal = <<"{", "k", "v", "}">>
    /\ response.choices[2].content = TJsonSql
    /\ candidates[2].status = "ok"
    /\ candidates[2].refined_goal = <<"{", "k", "v", "}">>
    /\ response.choices[3].content = TSqlSql
    /\ candidates[3].status = "ok"
    /\ candidates[3].refined_goal = DefaultGoal

\* C29: the view a status-'ok' candidate names is defined by the candidate's
\* own code, and its row_count and rows are those of that code, also when
\* the generated name is the name of an earlier view.
C29_OkViewIsDefinedByOwnCode ==
    InBatch =>
        \A i \in 1..Len(candidates) :
            candidates[i].status = "ok" =>
                LET name == candidates[i].content.virtual.table_name
                    r == QueryRows(candidates[i].code)
                IN /\ name \in DOMAIN views
                   /\ views[name] = candidates[i].code
                   /\ candidates[i].content.virtual.row_count = r
                   /\ candidates[i].content.rows = IF r <= RowCap THEN r ELSE RowCap

(***************************************************************************)
(* SQLDataTransformationAgent.run and followup.  A table name is the        *)
(* sequence of its characters; what the store and the messages hold is the  *)
(* sanitized name, a string.                                                *)
(***************************************************************************)
MaxTables == 2

MaxN == 2

\* [a-zA-Z0-9_\.$], as far as the names of the model go
AllowedChars == {"a", "b", "_", ".", "$"}

\* str.replace of one character
replace(table_name, old, new) ==
    [i \in 1..Len(table_name) |-> IF table_name[i] = old THEN new ELSE table_name[i]]

\* re.sub(r'[^a-zA-Z0-9_\.$]', '', name)
RECURSIVE re_sub_disallowed(_)
re_sub_disallowed(table_name) ==
    IF table_name = <<>> THEN ""
    ELSE (IF Head(table_name) \in AllowedChars THEN Head(table_name) ELSE "")
         \o re_sub_disallowed(Tail(table_name))

sanitize_table_name_dash_to_dot(table_name) ==
    re_sub_disallowed(replace(replace(table_name, " ", "_"), "-", "."))

\* lines 163-170
sanitize_table_name(table_name) ==
    re_sub_disallowed(replace(replace(table_name, " ", "_"), "-", "_"))

\* DESCRIBE <table_name> raises when the connection has no such table
describe_raises(tbls, table_name) == table_name \notin DOMAIN tbls

\* CREATE TABLE <table_name> AS SELECT * FROM df_temp
create_table(tbls, table_name, rows) ==
    [t \in DOMAIN tbls \cup {table_name} |-> IF t = table_name THEN rows ELSE tbls[t]]

ensure_table_always_load(tbls, table) ==
    LET table_name == sanitize_table_name(table.name)
    IN [tables |-> create_table(tbls, table_name, table.rows),
        done |-> [table_name |-> table_name,
                  ops |-> <<"DESCRIBE", "register", "CREATE TABLE", "DROP VIEW", "SELECT">>]]

\* lines 281-301, one iteration: the tables after it, and what it did
ensure_table(tbls, table) ==
    LET table_name == sanitize_table_name(table.name)
    IN IF describe_raises(tbls, table_name)
       THEN [tables |-> create_table(tbls, table_name, table.rows),
             done |-> [table_name |-> table_name,
                       ops |-> <<"DESCRIBE", "register", "CREATE TABLE", "DROP VIEW",
                                 "SELECT">>]]
       ELSE [tables |-> tbls,
             done |-> [table_name |-> table_name, ops |-> <<"DESCRIBE">>]]

\* lines 281-301, the whole loop
RECURSIVE ensure_tables(_, _)
ensure_tables(tbls, its) ==
    IF its = <<>> THEN tbls
    ELSE ensure_tables(ensure_table(tbls, Head(its)).tables, Tail(its))

\* lines 304 and 362-404: one entry per input table, read from the
\* connection under the sanitized name
RECURSIVE generate_sql_data_summary(_, _)
generate_sql_data_summary(tbls, its) ==
    IF its = <<>> THEN <<>>
    ELSE <<sanitize_table_name(Head(its).name), tbls[sanitize_table_name(Head(its).name)]>>
         \o generate_sql_data_summary(tbls, Tail(its))

SystemMessage == [role |-> "system", content |-> <<"prompt">>]

\* lines 312-314
user_query(data_summary, prev) ==
    IF Len(prev) > 0
    THEN <<"The user wants a new transformation", "CONTEXT">> \o data_summary \o <<"GOAL">>
    ELSE <<"CONTEXT">> \o data_summary \o <<"GOAL">>

filter_none(prev) == prev

\* line 319
filtered_prev_messages(prev) == SelectSeq(prev, LAMBDA msg : msg.role # "system")

\* lines 321-323
run_messages(prev, data_summary) ==
    <<SystemMessage>> \o filtered_prev_messages(prev)
    \o <<[role |-> "user", content |-> user_query(data_summary, prev)]>>

updated_dialog_keep_first(dlg) == dlg

\* line 349: dialog[1:] behind the system prompt
updated_dialog(dlg) == <<SystemMessage>> \o SubSeq(dlg, 2, Len(dlg))

FollowupMessage ==
    [role |-> "user",
     content |-> <<"This is the result from the latest sql query", "followup_instruction">>]

\* lines 354-355
followup_messages(dlg) == Append(updated_dialog(dlg), FollowupMessage)

\* lines 325 and 357: get_completion(messages = messages) is given no count
completion_count(k) == NoCount

\* the model client: told a count it answers with that many choices, told
\* none it answers with as many as it is configured to
client_counts(count) == IF count = NoCount THEN 1..MaxN ELSE {count}

(***************************************************************************)
(* Inputs of run and followup.                                              *)
(***************************************************************************)
NameSpace == <<"a", " ", "b">>

NameDash == <<"a", "-", "b">>

NamePlain == <<"a", "b">>

TableNames == {NameSpace, NameDash, NamePlain}

\* the rows supplied with the i-th input table; no two tables come with the
\* same rows
RowsOf(i) == "rows" \o ToString(i)

InputTableLists ==
    {[i \in 1..Len(names) |-> [name |-> names[i], rows |-> RowsOf(i)]] :
        names \in SeqsUpTo(TableNames, MaxTables)}

\* the connection holds no table yet, or one an earlier request loaded
InitialTables == {EmptyCatalog, [t \in {"a_b"} |-> "rows0"]}

UserMessage == [role |-> "user", content |-> <<"goal">>]

AssistantMessage == [role |-> "assistant", content |-> <<"reply">>]

StrayPrompt == [role |-> "system", content |-> <<"old prompt">>]

PrevMessageLists ==
    { <<>>,
      <<StrayPrompt, UserMessage, AssistantMessage>>,
      <<UserMessage, StrayPrompt, AssistantMessage, StrayPrompt>> }

\* the arguments of one call of run: any tables with no prior turn, or one
\* table with any prior turns and any n
RunArgs ==
    [input_tables : InputTableLists, prev_messages : {<<>>}, n : {1}]
    \cup [input_tables : {<<[name |-> NamePlain, rows |-> "rows1"]>>},
          prev_messages : PrevMessageLists, n : 1..MaxN]

\* a dialog that no call of run built: its first message is not a prompt
ForeignDialogs == { <<UserMessage, AssistantMessage>> }

\* what the client may answer with k choices
RunResponses(k) ==
    {choices_response([i \in 1..k |-> [shape |-> "text", role |-> "assistant",
                                        content |-> t]]) : t \in {TJsonSql, TSqlBad}}

RunFailures == {r \in FailedResponses : r.kind = "other" \/ r.has_body}

InitRun ==
    /\ HelpersOff
    /\ AliasOff
    /\ AthenaOff
    /\ SalesOff
    /\ pc = "idle"
    /\ response = NoResponse
    /\ messages = <<>>
    /\ idx = 0
    /\ candidates = <<>>
    /\ views = EmptyCatalog
    /\ trace = <<>>
    /\ raisedExc = ""
    /\ entry = "none"
    /\ input_tables = <<>>
    /\ prev_messages = <<>>
    /\ dialog = <<>>
    /\ nArg = 1
    /\ tables \in InitialTables
    /\ tix = 0
    /\ ensured = <<>>
    /\ requested = NoCount

\* line 271: run is called
Run(args) ==
    /\ pc = "idle"
    /\ entry' = "run"
    /\ input_tables' = args.input_tables
    /\ prev_messages' = args.prev_messages
    /\ nArg' = args.n
    /\ pc' = "ensure"
    /\ tix' = 1
    /\ ensured' = <<>>
    /\ UNCHANGED <<dialog, tables, requested>>
    /\ UNCHANGED <<uvars, avars, qvars, svars, response, messages, idx, candidates, views, trace, raisedExc>>

\* lines 281-301: one iteration of the loop over input_tables
EnsureTable ==
    /\ pc = "ensure"
    /\ tix <= Len(input_tables)
    /\ \E r \in {ensure_table(tables, input_tables[tix])} :
          /\ tables' = r.tables
          /\ ensured' = Append(ensured, r.done)
    /\ tix' = tix + 1
    /\ UNCHANGED <<entry, input_tables, prev_messages, dialog, nArg, requested>>
    /\ UNCHANGED <<uvars, avars, qvars, svars, pvars>>

\* lines 304-325: the messages are built and the model client is called
RunGetCompletion(r) ==
    /\ pc = "ensure"
    /\ tix > Len(input_tables)
    /\ messages' = run_messages(prev_messages,
                                generate_sql_data_summary(tables, input_tables))
    /\ requested' = completion_count(nArg)
    /\ response' = r
    /\ pc' = "client"
    /\ idx' = 0
    /\ candidates' = <<>>
    /\ trace' = <<>>
    /\ raisedExc' = ""
    /\ UNCHANGED <<entry, input_tables, prev_messages, dialog, nArg, tables, tix, ensured>>
    /\ UNCHANGED <<uvars, avars, qvars, svars, views>>

\* lines 330-357: followup is called with a dialog and calls the model client
Followup(dlg, k, r) ==
    /\ \/ pc = "idle"
       \/ pc = "returned" /\ entry = "run"
    /\ entry' = "followup"
    /\ dialog' = dlg
    /\ nArg' = k
    /\ input_tables' = <<>>
    /\ prev_messages' = <<>>
    /\ tix' = 0
    /\ ensured' = <<>>
    /\ messages' = followup_messages(dlg)
    /\ requested' = completion_count(k)
    /\ response' = r
    /\ pc' = "client"
    /\ idx' = 0
    /\ candidates' = <<>>
    /\ trace' = <<>>
    /\ raisedExc' = ""
    /\ UNCHANGED <<tables, uvars, avars, qvars, svars, views>>

\* the dialogs the candidates of the last call carry
DialogsOf(cands) ==
    {cands[i].dialog : i \in {j \in 1..Len(cands) : "dialog" \in DOMAIN cands[j]}}

NextRun ==
    \/ \E args \in RunArgs : Run(args)
    \/ EnsureTable
    \/ \E r \in RunFailures \cup UNION {RunResponses(k) : k \in client_counts(completion_count(nArg))} :
          RunGetCompletion(r)
    \/ \E dlg \in DialogsOf(candidates) \cup ForeignDialogs, k \in 1..MaxN :
          \E r \in RunFailures \cup UNION {RunResponses(c) : c \in client_counts(completion_count(k))} :
             Followup(dlg, k, r)
    \/ ProcessException
    \/ ProcessBegin
    \/ ProcessChoice
    \/ ProcessReturn

SpecRun == InitRun /\ [][NextRun]_vars

(***************************************************************************)
(* Properties of run and followup.                                          *)
(***************************************************************************)
\* the model client has been called
Called == pc \in {"client", "loop", "returned", "raised"}

\* the loop over input_tables is over
Ensured == entry = "run" /\ tix > Len(input_tables)

NamesOf(its) == {sanitize_table_name(its[i].name) : i \in 1..Len(its)}

Loads(done) == "CREATE TABLE" \in {done.ops[i] : i \in 1..Len(done.ops)}

\* C22: run creates a table only under a name the connection does not hold
\* yet and from the rows supplied for it, no step ever changes or drops a
\* table that exists, and once the loop over the input tables is over every
\* input table exists and running the loop again on the same input tables
\* leaves the tables as they are.
C22_EnsureIsIdempotent ==
    /\ [](Ensured =>
            /\ NamesOf(input_tables) \subseteq DOMAIN tables
            /\ ensure_tables(tables, input_tables) = tables)
    /\ [][/\ \A t \in DOMAIN tables : t \in DOMAIN tables' /\ tables'[t] = tables[t]
          /\ \A t \in DOMAIN tables' \ DOMAIN tables :
                /\ pc = "ensure"
                /\ t = sanitize_table_name(input_tables[tix].name)
                /\ tables'[t] = input_tables[tix].rows]_vars

C22_Witness ==
    /\ Ensured
    /\ Len(input_tables) = 2
    /\ input_tables[1].name = NameSpace
    /\ input_tables[2].name = NamePlain
    /\ ~Loads(ensured[1])
    /\ Loads(ensured[2])
    /\ tables = [t \in {"a_b", "ab"} |-> IF t = "a_b" THEN "rows0" ELSE "rows2"]

\* C23: when the client has answered a call of run or followup with a list
\* of choices and every choice has been handled, there are as many
\* candidates as the n the caller passed.
C23_CandidatesAreAsManyAsAsked ==
    (entry \in {"run", "followup"} /\ pc = "returned" /\ response.kind = "choices")
        => Len(candidates) = nArg

RECURSIVE IsSubsequence(_, _)
IsSubsequence(sub, whole) ==
    IF sub = <<>> THEN TRUE
    ELSE IF whole = <<>> THEN FALSE
    ELSE IF Head(sub) = Head(whole) THEN IsSubsequence(Tail(sub), Tail(whole))
    ELSE IsSubsequence(sub, Tail(whole))

SystemPositions(msgs) == {i \in 1..Len(msgs) : msgs[i].role = "system"}

\* C24: the messages run hands to the model client are the system prompt,
\* then the prior messages that are not system messages, in their order, then
\* one user message; the only system message is the first.
C24_RunMessagesHaveOneSystemPrompt ==
    (entry = "run" /\ Called) =>
        LET middle == SubSeq(messages, 2, Len(messages) - 1)
        IN /\ Len(messages) >= 2
           /\ messages[1] = SystemMessage
           /\ messages[Len(messages)].role = "user"
           /\ \A i \in 1..Len(middle) : middle[i].role # "system"
           /\ IsSubsequence(middle, prev_messages)
           /\ Len(middle) = Len(prev_messages) - Cardinality(SystemPositions(prev_messages))
           /\ SystemPositions(messages) = {1}

C24_Witness ==
    /\ entry = "run"
    /\ pc = "returned"
    /\ prev_messages = <<UserMessage, StrayPrompt, AssistantMessage, StrayPrompt>>
    /\ Len(messages) = 4
    /\ messages[2] = UserMessage
    /\ messages[3] = AssistantMessage

\* C25: the messages followup hands to the model client are the system
\* prompt in place of the first message of the dialog, the later messages of
\* the dialog as they were, and one new user message; every candidate built
\* from a choice of the answer carries those messages and the choice's reply,
\* two messages more than the dialog that was passed in.
C25_FollowupExtendsDialogByOneTurn ==
    (entry = "followup" /\ Called) =>
        /\ Len(messages) = Len(dialog) + 1
        /\ messages[1] = SystemMessage
        /\ \A i \in 2..Len(dialog) : messages[i] = dialog[i]
        /\ messages[Len(messages)] = FollowupMessage
        /\ \A i \in 1..Len(candidates) :
              "dialog" \in DOMAIN candidates[i] =>
                 /\ Len(candidates[i].dialog) = Len(dialog) + 2
                 /\ SubSeq(candidates[i].dialog, 1, Len(messages)) = messages
                 /\ Last(candidates[i].dialog) =
                       [role |-> response.choices[i].role,
                        content |-> response.choices[i].content]

\* followup of a dialog that a call of run returned
C25_Witness ==
    /\ entry = "followup"
    /\ pc = "returned"
    /\ dialog \notin ForeignDialogs
    /\ Len(dialog) = 3
    /\ dialog[1] = SystemMessage
    /\ dialog[3].content = TJsonSql
    /\ Len(candidates) = 2
    /\ Len(candidates[2].dialog) = 5
    /\ candidates[2].dialog[3] = dialog[3]

\* the first input table with the sanitized name of input table j
FirstOfName(j) ==
    Min({i \in 1..j : sanitize_table_name(input_tables[i].name)
                          = sanitize_table_name(input_tables[j].name)})

\* C30: an input table whose sanitized name is that of an earlier input
\* table ('a b' before 'a-b'), or of a table the connection already held, is
\* not loaded; the table keeps the rows it had, the loop goes on to the next
\* input table, and the data summary sent to the model shows the rows of the
\* store under that name.
C30_CollidingTableKeepsFirstRows ==
    entry = "run" =>
        /\ ~Called => (pc = "ensure" /\ raisedExc = "")
        /\ Len(ensured) = (IF tix > Len(input_tables) THEN Len(input_tables) ELSE tix - 1)
        /\ \A j \in 1..Len(ensured) :
              LET first == FirstOfName(j)
                  name == sanitize_table_name(input_tables[j].name)
              IN /\ ensured[j].table_name = name
                 /\ first < j => ~Loads(ensured[j])
                 /\ \A i \in 1..(j - 1) :
                       (input_tables[i].name = NameSpace /\ input_tables[j].name = NameDash)
                          => ensured[j].ops = <<"DESCRIBE">>
                 /\ tables[name] = IF Loads(ensured[first])
                                   THEN input_tables[first].rows
                                   ELSE "rows0"
        /\ Called =>
              LET content == messages[Len(messages)].content
                  told == <<"CONTEXT">>
                          \o generate_sql_data_summary(tables, input_tables)
                          \o <<"GOAL">>
              IN /\ Len(content) >= Len(told)
                 /\ SubSeq(content, Len(content) - Len(told) + 1, Len(content)) = told

\* 'a b' is loaded, 'a-b' with other rows is not, and the model is told the
\* rows of 'a b' under the name of both
C30_Witness ==
    /\ entry = "run"
    /\ pc = "client"
    /\ input_tables = <<[name |-> NameSpace, rows |-> "rows1"],
                        [name |-> NameDash, rows |-> "rows2"]>>
    /\ Loads(ensured[1])
    /\ ensured[2].ops = <<"DESCRIBE">>
    /\ tables = [t \in {"a_b"} |-> "rows1"]
    /\ messages[2].content = <<"CONTEXT", "a_b", "rows1", "a_b", "rows1", "GOAL">>

\* a table the connection already held keeps its rows
C30_WitnessExisting ==
    /\ entry = "run"
    /\ pc = "client"
    /\ input_tables = <<[name |-> NameDash, rows |-> "rows1"]>>
    /\ ensured[1].ops = <<"DESCRIBE">>
    /\ tables = [t \in {"a_b"} |-> "rows0"]

(***************************************************************************)
(* The objects the results of process_gpt_sql_response hold.  A list holds  *)
(* identities; a dict is an object of the heap, changed in place.           *)
(***************************************************************************)
MaxResults == 2

\* line 255: [*messages, {"role": ..., "content": ...}] is a new list that
\* holds the objects of messages and one new dict
dialog_refs(msg_refs, new_ref) == Append(msg_refs, new_ref)

\* the objects made for one result: the reply dict (line 255), the
\* refined_goal (lines 205-209) and the content (lines 235-253)
allocate(hp, reply) == hp \o <<reply, [instruction |-> "v"], [rows |-> "qM"]>>

\* lines 203-258 as far as object identities go
result_refs(hp, msg_refs) ==
    [dialog |-> dialog_refs(msg_refs, Len(hp) + 1),
     refined_goal |-> Len(hp) + 2,
     content |-> Len(hp) + 3]

\* the values a result shows
deref(hp, refs) ==
    [dialog |-> [i \in 1..Len(refs.dialog) |-> hp[refs.dialog[i]]],
     refined_goal |-> hp[refs.refined_goal],
     content |-> hp[refs.content]]

\* the values the list passed as messages shows
deref_messages(hp, msg_refs) == [i \in 1..Len(msg_refs) |-> hp[msg_refs[i]]]

Changed == [changed |-> TRUE]

InitAlias ==
    /\ HelpersOff
    /\ PipelineOff
    /\ RunOff
    /\ AthenaOff
    /\ SalesOff
    /\ heap = <<SystemMessage, UserMessage>>
    /\ messageRefs = <<1, 2>>
    /\ candRefs = <<>>
    /\ mutated = 0

\* lines 201-258: one more choice becomes a result
AliasChoice(reply) ==
    /\ mutated = 0
    /\ Len(candRefs) < MaxResults
    /\ heap' = allocate(heap, reply)
    /\ candRefs' = Append(candRefs, result_refs(heap, messageRefs))
    /\ UNCHANGED <<messageRefs, mutated>>
    /\ UNCHANGED <<pvars, uvars, rvars, qvars, svars>>

\* the caller changes, in place, an object reached through result i: a
\* message of its dialog, its refined_goal or its content
MutateObject(i, ref) ==
    /\ Len(candRefs) > 0
    /\ heap[ref] # Changed
    /\ heap' = [heap EXCEPT ![ref] = Changed]
    /\ mutated' = i
    /\ UNCHANGED <<messageRefs, candRefs>>
    /\ UNCHANGED <<pvars, uvars, rvars, qvars, svars>>

\* the caller removes the last message from the dialog list of result i
MutateDialogList(i) ==
    /\ Len(candRefs[i].dialog) > Len(messageRefs)
    /\ candRefs' = [candRefs EXCEPT ![i].dialog = SubSeq(@, 1, Len(@) - 1)]
    /\ mutated' = i
    /\ UNCHANGED <<heap, messageRefs>>
    /\ UNCHANGED <<pvars, uvars, rvars, qvars, svars>>

RefsOf(refs) ==
    {refs.dialog[j] : j \in 1..Len(refs.dialog)} \cup {refs.refined_goal, refs.content}

NextAlias ==
    \/ \E reply \in {AssistantMessage} : AliasChoice(reply)
    \/ \E i \in 1..Len(candRefs) : \E ref \in RefsOf(candRefs[i]) : MutateObject(i, ref)
    \/ \E i \in 1..Len(candRefs) : MutateDialogList(i)

SpecAlias == InitAlias /\ [][NextAlias]_vars

\* C26: a change the caller makes through one result, to a message of its
\* dialog, to its refined_goal or to its content, leaves what every other
\* result shows and what the list passed as messages shows as they were.
C26_MutationStaysInsideResult ==
    [][mutated' # 0 =>
          /\ deref_messages(heap', messageRefs') = deref_messages(heap, messageRefs)
          /\ \A k \in 1..Len(candRefs) :
                k # mutated' => deref(heap', candRefs'[k]) = deref(heap, candRefs[k])]_vars

(***************************************************************************)
(* AthenaDataLoader._execute_query.  Time is counted in whole seconds.      *)
(***************************************************************************)
\* the seconds a client call may take, and a sleep may overrun
MaxLatency == 1

DefaultTimeout == 300

BackoffCap == 10

\* __init__ lines 183-213: a positive whole number of seconds, 300 when none
\* is given
QueryTimeouts == {1, DefaultTimeout}

TerminalStates == {"SUCCEEDED", "FAILED", "CANCELLED"}

\* what Athena may turn a query's state into
NextStates(state) ==
    CASE state = "QUEUED" -> {"RUNNING", "FAILED", "CANCELLED"}
      [] state = "RUNNING" -> TerminalStates
      [] OTHER -> {}

\* line 366
timed_out(e, timeout) == e > timeout

backoff_uncapped(e) == 2 ^ (e \div 10)

\* line 398: min(2 ** (elapsed // 10), 10)
backoff(e) == Min({2 ^ (e \div 10), BackoffCap})

InitAthena ==
    /\ HelpersOff
    /\ PipelineOff
    /\ RunOff
    /\ AliasOff
    /\ SalesOff
    /\ qpc = "start"
    /\ now = 0
    /\ elapsed = 0
    /\ wait_time = 0
    /\ query_timeout \in QueryTimeouts
    /\ qstate = "NONE"
    /\ observed = "NONE"
    /\ stop_calls = <<>>
    /\ outcome = ""

\* lines 348-363: start_query_execution, which may raise, then start_time
StartQueryExecution(raises) ==
    /\ qpc = "start"
    /\ IF raises
       THEN /\ qpc' = "done"
            /\ outcome' = "ClientError"
            /\ UNCHANGED qstate
       ELSE /\ qpc' = "check"
            /\ qstate' = "QUEUED"
            /\ UNCHANGED outcome
    /\ UNCHANGED <<now, elapsed, wait_time, query_timeout, observed, stop_calls>>
    /\ UNCHANGED <<pvars, uvars, rvars, avars, svars>>

\* lines 365-366: the round starts by reading the clock
CheckTimeout ==
    /\ qpc = "check"
    /\ elapsed' = now
    /\ qpc' = IF timed_out(now, query_timeout) THEN "stop" ELSE "poll"
    /\ UNCHANGED <<now, wait_time, query_timeout, qstate, observed, stop_calls, outcome>>
    /\ UNCHANGED <<pvars, uvars, rvars, avars, svars>>

\* lines 369-380: stop_query_execution, whose exception is logged, then
\* TimeoutError
StopQueryExecution(raises) ==
    /\ qpc = "stop"
    /\ stop_calls' = Append(stop_calls, IF raises THEN "raised" ELSE "stopped")
    /\ qstate' = IF ~raises /\ qstate \notin TerminalStates THEN "CANCELLED" ELSE qstate
    /\ outcome' = "TimeoutError"
    /\ qpc' = "done"
    /\ UNCHANGED <<now, elapsed, wait_time, query_timeout, observed>>
    /\ UNCHANGED <<pvars, uvars, rvars, avars, svars>>

\* lines 382-398: get_query_execution, which may raise, and the branch on
\* the state it reports
GetQueryExecution(raises, latency) ==
    /\ qpc = "poll"
    /\ now' = now + latency
    /\ IF raises
       THEN /\ qpc' = "done"
            /\ outcome' = "ClientError"
            /\ UNCHANGED <<observed, wait_time>>
       ELSE /\ observed' = qstate
            /\ CASE qstate = "SUCCEEDED" ->
                      /\ outcome' = "returned"
                      /\ qpc' = "done"
                      /\ UNCHANGED wait_time
                 [] qstate \in {"FAILED", "CANCELLED"} ->
                      /\ outcome' = "RuntimeError"
                      /\ qpc' = "done"
                      /\ UNCHANGED wait_time
                 [] OTHER ->
                      /\ wait_time' = backoff(elapsed)
                      /\ qpc' = "sleep"
                      /\ UNCHANGED outcome
    /\ UNCHANGED <<elapsed, query_timeout, qstate, stop_calls>>
    /\ UNCHANGED <<pvars, uvars, rvars, avars, svars>>

\* line 399: time.sleep(wait_time) returns after wait_time seconds or more
Sleep(overrun) ==
    /\ qpc = "sleep"
    /\ now' = now + wait_time + overrun
    /\ qpc' = "check"
    /\ UNCHANGED <<elapsed, wait_time, query_timeout, qstate, observed, stop_calls, outcome>>
    /\ UNCHANGED <<pvars, uvars, rvars, avars, svars>>

\* Athena moves the query on
AthenaProgress(state) ==
    /\ qpc \in {"check", "poll", "sleep", "stop"}
    /\ state \in NextStates(qstate)
    /\ qstate' = state
    /\ UNCHANGED <<qpc, now, elapsed, wait_time, query_timeout, observed, stop_calls, outcome>>
    /\ UNCHANGED <<pvars, uvars, rvars, avars, svars>>

LoaderStep ==
    \/ \E raises \in BOOLEAN : StartQueryExecution(raises)
    \/ CheckTimeout
    \/ \E raises \in BOOLEAN : StopQueryExecution(raises)
    \/ \E raises \in BOOLEAN, latency \in 0..MaxLatency : GetQueryExecution(raises, latency)
    \/ \E overrun \in 0..MaxLatency : Sleep(overrun)

NextAthena ==
    \/ \E raises \in BOOLEAN : StartQueryExecution(raises)
    \/ CheckTimeout
    \/ \E raises \in BOOLEAN : StopQueryExecution(raises)
    \/ \E raises \in BOOLEAN, latency \in 0..MaxLatency : GetQueryExecution(raises, latency)
    \/ \E overrun \in 0..MaxLatency : Sleep(overrun)
    \/ \E state \in TerminalStates \cup {"RUNNING"} : AthenaProgress(state)

\* the call runs on: the thread that made it is never stopped for good
SpecAthenaFair == InitAthena /\ [][NextAthena]_vars /\ WF_vars(LoaderStep)

WaitTable(e) ==
    IF e < 10 THEN 1 ELSE IF e < 20 THEN 2 ELSE IF e < 30 THEN 4 ELSE IF e < 40 THEN 8 ELSE 10

MaxClock == 4

TicksPerSecond == 2

SalesCap == 1000

Requests == {1, 2}

NoUpdate == -1

len(history) == history.hi - history.lo + 1

\* k times deque.append on a deque(maxlen=1000): what no longer fits is
\* dropped from the left
append(history, k) ==
    [lo |-> IF len(history) + k > SalesCap THEN history.hi + k - SalesCap + 1
            ELSE history.lo,
     hi |-> history.hi + k]

should_update_always(t, last) == TRUE

\* line 1146: _sales_last_update is None or
\* (now - _sales_last_update).total_seconds() >= 1
should_update(t, last) == last = NoUpdate \/ t - last >= TicksPerSecond

\* lines 1152 and 1160: random.randint(5, 10), random.randint(1, 3)
batch_sizes(history) == IF len(history) = 0 THEN 5..10 ELSE 1..3

\* the process has served no request yet, or has served enough of them to
\* have the deque nearly full, or full
InitialSales ==
    {[history |-> [lo |-> 1, hi |-> 0], last |-> NoUpdate],
     [history |-> [lo |-> 1, hi |-> SalesCap - 2], last |-> 0],
     [history |-> [lo |-> 1, hi |-> SalesCap], last |-> 0]}

InitSales ==
    /\ HelpersOff
    /\ PipelineOff
    /\ RunOff
    /\ AliasOff
    /\ AthenaOff
    /\ \E s \in InitialSales :
          /\ sales_history = s.history
          /\ sales_last_update = s.last
    /\ sales_lock = 0
    /\ utc = 0
    /\ spc = [r \in Requests |-> "idle"]
    /\ sales_now = [r \in Requests |-> 0]
    /\ updating = [r \in Requests |-> FALSE]
    /\ refills = <<>>

\* line 1141: now = datetime.utcnow(), before the lock is taken
ReadNow(r) ==
    /\ spc[r] = "idle"
    /\ sales_now' = [sales_now EXCEPT ![r] = utc]
    /\ spc' = [spc EXCEPT ![r] = "acquire"]
    /\ UNCHANGED <<sales_lock, sales_history, sales_last_update, utc, updating, refills>>
    /\ UNCHANGED <<pvars, uvars, rvars, avars, qvars>>

\* line 1145: with _sales_lock
Acquire(r) ==
    /\ spc[r] = "acquire"
    /\ sales_lock = 0
    /\ sales_lock' = r
    /\ spc' = [spc EXCEPT ![r] = "gate"]
    /\ UNCHANGED <<sales_history, sales_last_update, utc, sales_now, updating, refills>>
    /\ UNCHANGED <<pvars, uvars, rvars, avars, qvars>>

\* line 1146
Gate(r) ==
    /\ spc[r] = "gate"
    /\ updating' = [updating EXCEPT ![r] = should_update(sales_now[r], sales_last_update)]
    /\ spc' = [spc EXCEPT ![r] = IF updating'[r] THEN "refill" ELSE "rows"]
    /\ UNCHANGED <<sales_lock, sales_history, sales_last_update, utc, sales_now, refills>>
    /\ UNCHANGED <<pvars, uvars, rvars, avars, qvars>>

\* lines 1148-1166: the transactions of this request are appended
Refill(r, k) ==
    /\ spc[r] = "refill"
    /\ k \in batch_sizes(sales_history)
    /\ sales_history' = append(sales_history, k)
    /\ refills' = Append(refills, sales_now[r])
    /\ spc' = [spc EXCEPT ![r] = "stamp"]
    /\ UNCHANGED <<sales_lock, sales_last_update, utc, sales_now, updating>>
    /\ UNCHANGED <<pvars, uvars, rvars, avars, qvars>>

\* line 1168: _sales_last_update = now
Stamp(r) ==
    /\ spc[r] = "stamp"
    /\ sales_last_update' = sales_now[r]
    /\ spc' = [spc EXCEPT ![r] = "rows"]
    /\ UNCHANGED <<sales_lock, sales_history, utc, sales_now, updating,
                   refills>>
    /\ UNCHANGED <<pvars, uvars, rvars, avars, qvars>>

\* lines 1171-1176: the rows are read, the with block ends, the request
\* returns and its locals are gone
Release(r) ==
    /\ spc[r] = "rows"
    /\ sales_lock' = 0
    /\ spc' = [spc EXCEPT ![r] = "idle"]
    /\ sales_now' = [sales_now EXCEPT ![r] = 0]
    /\ updating' = [updating EXCEPT ![r] = FALSE]
    /\ UNCHANGED <<sales_history, sales_last_update, utc, refills>>
    /\ UNCHANGED <<pvars, uvars, rvars, avars, qvars>>

\* the clock of datetime.utcnow() moves: on, or back when it is set
Tick(d) ==
    /\ utc + d \in 0..MaxClock
    /\ utc' = utc + d
    /\ UNCHANGED <<sales_lock, sales_history, sales_last_update, spc, sales_now,
                   updating, refills>>
    /\ UNCHANGED <<pvars, uvars, rvars, avars, qvars>>

NextSales ==
    \/ \E r \in Requests : ReadNow(r)
    \/ \E r \in Requests : Acquire(r)
    \/ \E r \in Requests : Gate(r)
    \/ \E r \in Requests, k \in 1..10 : Refill(r, k)
    \/ \E r \in Requests : Stamp(r)
    \/ \E r \in Requests : Release(r)
    \/ \E d \in {1, -1} : Tick(d)

SpecSales == InitSales /\ [][NextSales]_vars

\* inside the with block
InLock(r) == spc[r] \in {"gate", "refill", "stamp", "rows"}

\* C28: however the requests interleave, at most one of them is between the
\* gate check and the end of the with block, and the deque and the
\* last-update time change only there; the request times of any two refills
\* are a second or more apart; the last-update time never decreases; the
\* deque never holds more than 1000 transactions, and a transaction leaves it
\* only when newer ones need the room, the oldest first.
C28_RefillIsAtomicUnderLock ==
    /\ [](/\ \A r1, r2 \in Requests : (InLock(r1) /\ InLock(r2)) => r1 = r2
          /\ \A r \in Requests : InLock(r) => sales_lock = r
          /\ \A i, j \in 1..Len(refills) :
                i < j => refills[j] - refills[i] >= TicksPerSecond
          /\ len(sales_history) <= SalesCap
          /\ len(sales_history) >= 0)
    /\ [][/\ sales_last_update' >= sales_last_update
          /\ <<sales_history, sales_last_update, refills>>'
                # <<sales_history, sales_last_update, refills>>
               => (sales_lock # 0 /\ InLock(sales_lock) /\ sales_lock' = sales_lock)
          /\ sales_history'.hi >= sales_history.hi
          /\ sales_history'.lo >= sales_history.lo
          /\ sales_history'.lo > sales_history.lo => len(sales_history') = SalesCap]_vars

\* a refill of a full deque, a second after the one before it, by a request
\* that read the clock while the other held the lock
C28_Witness ==
    /\ Len(refills) = 2
    /\ refills[2] - refills[1] = TicksPerSecond
    /\ len(sales_history) = SalesCap
    /\ sales_history.lo > 1
    /\ \E r \in Requests : spc[r] = "acquire" /\ sales_lock # 0 /\ sales_now[r] > sales_last_update

====
